---- MODULE Spec2Model ----
(***************************************************************************)
(* Rate aggregation of jp-sub-speechrate: scripts/collect_show_rates.py    *)
(* and scripts/visualize_rates.py.                                         *)
(*                                                                         *)
(* Python floats are modelled as exact rationals <<n, d>> in lowest terms  *)
(* with d > 0, so that equality of two numbers is equality of the pairs.   *)
(* A raised Python exception is modelled as the value Raised.              *)
(***************************************************************************)
EXTENDS Integers, Sequences, FiniteSets

VARIABLES
    fn,             \* the function or step that ran last ("none" before any)
    arg,            \* the arguments it was called with
    res,            \* what it returned
    pc,             \* collect_show_rates.main: position in the program
    rows,           \* main: rows
    total_units,    \* main: total_units of the show being processed
    total_minutes,  \* main: total_minutes of the show being processed
    line_rates,     \* main: line_rates of the show being processed
    show_files,     \* history: the parsed items of each file of this show so far
    nshows,         \* history: number of show directories entered
    nfiles,         \* history: number of directory entries seen in this show
    nsubs,          \* history: number of subtitle files seen in this show
    report          \* main: what was printed

vars == <<fn, arg, res, pc, rows, total_units, total_minutes, line_rates,
          show_files, nshows, nfiles, nsubs, report>>

(***************************************************************************)
(* Bounds of the model.                                                    *)
(***************************************************************************)
MaxVals == 4        \* longest list handed to _percentile
MaxPairs == 3       \* longest list handed to a weighted median
MaxItems == 4       \* most records in one parsed file
MaxRejects == 3     \* most records in one parsed file with rejected lines
MaxShows == 2       \* most show directories in one run of main
MaxFiles == 2       \* most directory entries of one show directory

(***************************************************************************)
(* Exact rational arithmetic standing for Python float arithmetic.         *)
(***************************************************************************)
Abs(x) == IF x < 0 THEN -x ELSE x

Min(a, b) == IF a <= b THEN a ELSE b

RECURSIVE Gcd(_, _)
Gcd(a, b) == IF b = 0 THEN a ELSE Gcd(b, a % b)

\* n / d in lowest terms, d /= 0
Rat(n, d) ==
    LET g == Gcd(Abs(n), Abs(d))
        s == IF d < 0 THEN -1 ELSE 1
    IN  <<(s * n) \div g, (s * d) \div g>>

RInt(n) == <<n, 1>>

Zero == RInt(0)

RAdd(a, b) == Rat(a[1] * b[2] + b[1] * a[2], a[2] * b[2])

RSub(a, b) == Rat(a[1] * b[2] - b[1] * a[2], a[2] * b[2])

RMul(a, b) == Rat(a[1] * b[1], a[2] * b[2])

\* a / b, b /= 0
RDiv(a, b) == Rat(a[1] * b[2], a[2] * b[1])

RLe(a, b) == a[1] * b[2] <= b[1] * a[2]

RLt(a, b) == a[1] * b[2] < b[1] * a[2]

\* Python int(x): truncation toward zero
Trunc(a) == IF a[1] >= 0 THEN a[1] \div a[2] ELSE -((-a[1]) \div a[2])

\* the outcome of a call that raised an exception
Raised == [raised |-> TRUE]

RECURSIVE RSum(_)
RSum(s) == IF s = <<>> THEN Zero ELSE RAdd(Head(s), RSum(Tail(s)))

RECURSIVE ISum(_)
ISum(s) == IF s = <<>> THEN 0 ELSE Head(s) + ISum(Tail(s))

\* all sequences over S of length at most n
SeqsUpTo(S, n) == UNION {[1..k -> S] : k \in 0..n}

(***************************************************************************)
(* sorted(): Python's sort is stable.                                      *)
(***************************************************************************)
RECURSIVE Insert(_, _)
Insert(x, s) ==
    IF s = <<>> THEN <<x>>
    ELSE IF RLt(x, Head(s)) THEN <<x>> \o s
    ELSE <<Head(s)>> \o Insert(x, Tail(s))

\* sorted(values)
RECURSIVE sorted(_)
sorted(s) ==
    IF s = <<>> THEN <<>>
    ELSE Insert(s[Len(s)], sorted(SubSeq(s, 1, Len(s) - 1)))

RECURSIVE InsertPair(_, _)
InsertPair(x, s) ==
    IF s = <<>> THEN <<x>>
    ELSE IF RLt(x[1], Head(s)[1]) THEN <<x>> \o s
    ELSE <<Head(s)>> \o InsertPair(x, Tail(s))

\* sorted(pairs, key=lambda x: x[0])
RECURSIVE sorted_by_value(_)
sorted_by_value(s) ==
    IF s = <<>> THEN <<>>
    ELSE InsertPair(s[Len(s)], sorted_by_value(SubSeq(s, 1, Len(s) - 1)))

(***************************************************************************)
(* _percentile(sorted_vals, p)                                             *)
(***************************************************************************)
percentile_swapped(sorted_vals, p) ==
    IF sorted_vals = <<>> THEN Zero
    ELSE IF p <= 0 THEN sorted_vals[1]
    ELSE IF p >= 100 THEN sorted_vals[Len(sorted_vals)]
    ELSE LET k == RMul(RInt(Len(sorted_vals) - 1), Rat(p, 100))
             f == Trunc(k)
             c == Min(f + 1, Len(sorted_vals) - 1)
         IN  IF f = c THEN sorted_vals[f + 1]
             ELSE RAdd(RMul(sorted_vals[f + 1], RSub(k, RInt(f))),
                       RMul(sorted_vals[c + 1], RSub(RInt(c), k)))

_percentile(sorted_vals, p) ==
    IF sorted_vals = <<>> THEN Zero
    ELSE IF p <= 0 THEN sorted_vals[1]
    ELSE IF p >= 100 THEN sorted_vals[Len(sorted_vals)]
    ELSE LET k == RMul(RInt(Len(sorted_vals) - 1), Rat(p, 100))
             f == Trunc(k)
             c == Min(f + 1, Len(sorted_vals) - 1)
         IN  IF f = c THEN sorted_vals[f + 1]
             ELSE RAdd(RMul(sorted_vals[f + 1], RSub(RInt(c), k)),
                       RMul(sorted_vals[c + 1], RSub(k, RInt(f))))

\* visualize_rates.py carries a verbatim copy of the function
viz_percentile(sorted_vals, p) == _percentile(sorted_vals, p)

(***************************************************************************)
(* The collaborators of jp_sub_speechrate (parsing, reading).  A parsed    *)
(* item is [start, end, text]; a text is represented by what the           *)
(* collaborators return for it: kind "blank" (text.strip() is empty),      *)
(* "annot" (strip_nonspoken leaves nothing spoken) or "speech", and the    *)
(* counts KanaReader gives its reading.                                    *)
(***************************************************************************)
Units == {"mora", "kana", "syllable"}

\* strip_nonspoken(text)
strip_nonspoken(text) ==
    IF text.kind = "annot" THEN [text EXCEPT !.kind = "blank"] ELSE text

\* not text.strip()
is_blank(text) == text.kind = "blank"

\* reader.to_kana(text, strip_sokuon=...): the reading keeps the text's counts;
\* the sokuon is removed from the reading when strip_sokuon is set
to_kana(text, strip_sokuon) == [text |-> text, strip_sokuon |-> strip_sokuon]

count_mora(reading) == reading.text.mora

count_syllable(reading) == reading.text.syllable

count_kana(reading) ==
    IF reading.strip_sokuon THEN reading.text.kana - reading.text.sokuon
    ELSE reading.text.kana

\* merge_intervals(intervals): sort by start, then one left-to-right scan that
\* extends the open interval when s <= ce and emits it otherwise
RECURSIVE InsertInterval(_, _)
InsertInterval(x, s) ==
    IF s = <<>> THEN <<x>>
    ELSE IF x[1] < Head(s)[1] THEN <<x>> \o s
    ELSE <<Head(s)>> \o InsertInterval(x, Tail(s))

RECURSIVE sorted_intervals(_)
sorted_intervals(s) ==
    IF s = <<>> THEN <<>>
    ELSE InsertInterval(s[Len(s)], sorted_intervals(SubSeq(s, 1, Len(s) - 1)))

RECURSIVE MergeScan(_, _, _)
MergeScan(cur, rest, out) ==
    IF rest = <<>> THEN Append(out, cur)
    ELSE LET n == Head(rest)
         IN  IF n[1] <= cur[2]
             THEN MergeScan(<<cur[1], IF n[2] > cur[2] THEN n[2] ELSE cur[2]>>,
                            Tail(rest), out)
             ELSE MergeScan(n, Tail(rest), Append(out, cur))

merge_intervals(intervals) ==
    IF intervals = <<>> THEN <<>>
    ELSE LET s == sorted_intervals(intervals)
         IN  MergeScan(Head(s), Tail(s), <<>>)

(***************************************************************************)
(* The per-line loop body shared by _analyze_items, _line_rates and        *)
(* _line_entries: the line is skipped (continue), the division raises, or  *)
(* the entry <<start, end, count, rate, duration_s>> is appended.  A call  *)
(* returns Raised or [raised |-> FALSE, ret |-> value].                    *)
(***************************************************************************)
\* count / (duration_ms / 1000.0 / 60.0): ZeroDivisionError when the divisor is 0
line_rate(count, duration_ms) ==
    IF duration_ms = 0 THEN Raised
    ELSE [raised |-> FALSE, ret |-> Rat(count * 60000, duration_ms)]

line_count(text, unit) ==
    LET reading == to_kana(text, unit = "kana")
    IN  IF unit = "mora" THEN count_mora(reading)
        ELSE IF unit = "syllable" THEN count_syllable(reading)
        ELSE count_kana(reading)

line_step_no_duration_guard(item, unit) ==
    IF is_blank(item.text) THEN [kind |-> "skip"]
    ELSE IF is_blank(strip_nonspoken(item.text)) THEN [kind |-> "skip"]
    ELSE LET duration_ms == item.end - item.start
             count == line_count(strip_nonspoken(item.text), unit)
             rate == line_rate(count, duration_ms)
         IN  IF duration_ms < 0 THEN [kind |-> "skip"]
             ELSE IF count <= 0 THEN [kind |-> "skip"]
             ELSE IF rate.raised THEN [kind |-> "raise"]
             ELSE [kind |-> "entry",
                   entry |-> <<item.start, item.end, count, rate.ret,
                               Rat(duration_ms, 1000)>>]

line_step(item, unit) ==
    IF is_blank(item.text) THEN [kind |-> "skip"]
    ELSE IF is_blank(strip_nonspoken(item.text)) THEN [kind |-> "skip"]
    ELSE LET duration_ms == item.end - item.start
             count == line_count(strip_nonspoken(item.text), unit)
             rate == line_rate(count, duration_ms)
         IN  IF duration_ms <= 0 THEN [kind |-> "skip"]
             ELSE IF count <= 0 THEN [kind |-> "skip"]
             ELSE IF rate.raised THEN [kind |-> "raise"]
             ELSE [kind |-> "entry",
                   entry |-> <<item.start, item.end, count, rate.ret,
                               Rat(duration_ms, 1000)>>]

\* the entries the loop appends, in order
RECURSIVE loop_entries(_, _)
loop_entries(items, unit) ==
    IF items = <<>> THEN <<>>
    ELSE (IF line_step(Head(items), unit).kind = "entry"
          THEN <<line_step(Head(items), unit).entry>>
          ELSE <<>>) \o loop_entries(Tail(items), unit)

\* "for start, end, text in items": Raised if an iteration raises
line_loop(items, unit) ==
    IF \E i \in 1..Len(items) : line_step(items[i], unit).kind = "raise"
    THEN Raised
    ELSE [raised |-> FALSE, ret |-> loop_entries(items, unit)]

\* visualize_rates._line_entries: (start, end, count, rate, duration_s)
_line_entries(items, unit) == line_loop(items, unit)

\* collect_show_rates._line_rates: (rate, duration_s)
_line_rates(items, unit) ==
    LET es == line_loop(items, unit)
    IN  IF es.raised THEN Raised
        ELSE [raised |-> FALSE,
              ret |-> [i \in 1..Len(es.ret) |-> <<es.ret[i][4], es.ret[i][5]>>]]

\* visualize_rates._line_rates
viz_line_rates(items, unit) ==
    LET es == _line_entries(items, unit)
    IN  IF es.raised THEN Raised
        ELSE [raised |-> FALSE,
              ret |-> [i \in 1..Len(es.ret) |-> <<es.ret[i][4], es.ret[i][5]>>]]

(***************************************************************************)
(* Outlier trimming: the three places that compute a Tukey fence.          *)
(***************************************************************************)
Rates(entries, col) == [i \in 1..Len(entries) |-> entries[i][col]]

\* q - 1.5 * iqr and q + 1.5 * iqr
FenceLower(q1, iqr) == RSub(q1, RMul(Rat(3, 2), iqr))

FenceUpper(q3, iqr) == RAdd(q3, RMul(Rat(3, 2), iqr))

\* swapped_fence: lower and upper exchanged
inline_trim_swapped(entries) ==
    LET rates == sorted(Rates(entries, 4))
        q1 == _percentile(rates, 25)
        q3 == _percentile(rates, 75)
        iqr == RSub(q3, q1)
        lower == FenceUpper(q3, iqr)
        upper == FenceLower(q1, iqr)
    IN  IF RLt(Zero, iqr)
        THEN SelectSeq(entries, LAMBDA e : RLe(lower, e[4]) /\ RLe(e[4], upper))
        ELSE entries

\* the body of "if trim_outliers ..." in _analyze_items and _episode_rate;
\* the rate of an entry is e[3] in Python, e[4] here
inline_trim(entries) ==
    LET rates == sorted(Rates(entries, 4))
        q1 == _percentile(rates, 25)
        q3 == _percentile(rates, 75)
        iqr == RSub(q3, q1)
        lower == FenceLower(q1, iqr)
        upper == FenceUpper(q3, iqr)
    IN  IF RLt(Zero, iqr)
        THEN SelectSeq(entries, LAMBDA e : RLe(lower, e[4]) /\ RLe(e[4], upper))
        ELSE entries

show_trim_upper_only(lines, trim_outliers) ==
    IF trim_outliers /\ Len(lines) >= 4
    THEN LET rates_only == sorted(Rates(lines, 1))
             q1 == _percentile(rates_only, 25)
             q3 == _percentile(rates_only, 75)
             iqr == RSub(q3, q1)
             upper == FenceUpper(q3, iqr)
         IN  IF RLt(Zero, iqr)
             THEN SelectSeq(lines, LAMBDA e : RLe(e[1], upper))
             ELSE lines
    ELSE lines

\* collect_show_rates.main: the show-level fence over lines, (rate, weight)
show_trim(lines, trim_outliers) ==
    IF trim_outliers /\ Len(lines) >= 4
    THEN LET rates_only == sorted(Rates(lines, 1))
             q1 == _percentile(rates_only, 25)
             q3 == _percentile(rates_only, 75)
             iqr == RSub(q3, q1)
             lower == FenceLower(q1, iqr)
             upper == FenceUpper(q3, iqr)
         IN  IF RLt(Zero, iqr)
             THEN SelectSeq(lines, LAMBDA e : RLe(lower, e[1]) /\ RLe(e[1], upper))
             ELSE lines
    ELSE lines

ToSet(s) == {s[i] : i \in 1..Len(s)}

trim_iqr_empty_when_flat(values) ==
    IF Len(values) < 4 THEN ToSet(values)
    ELSE LET sorted_vals == sorted(values)
             q1 == viz_percentile(sorted_vals, 25)
             q3 == viz_percentile(sorted_vals, 75)
             iqr == RSub(q3, q1)
             lower == FenceLower(q1, iqr)
             upper == FenceUpper(q3, iqr)
         IN  IF RLe(iqr, Zero) THEN {}
             ELSE {v \in ToSet(values) : RLe(lower, v) /\ RLe(v, upper)}

\* visualize_rates._trim_iqr
_trim_iqr(values) ==
    IF Len(values) < 4 THEN ToSet(values)
    ELSE LET sorted_vals == sorted(values)
             q1 == viz_percentile(sorted_vals, 25)
             q3 == viz_percentile(sorted_vals, 75)
             iqr == RSub(q3, q1)
             lower == FenceLower(q1, iqr)
             upper == FenceUpper(q3, iqr)
         IN  IF RLe(iqr, Zero) THEN ToSet(values)
             ELSE {v \in ToSet(values) : RLe(lower, v) /\ RLe(v, upper)}

\* visualize_rates.main, granularity "line": list(zip(values, weights))
viz_show_lines(rates, trim_outliers) ==
    IF trim_outliers
    THEN LET value_set == _trim_iqr(Rates(rates, 1))
         IN  SelectSeq(rates, LAMBDA e : e[1] \in value_set)
    ELSE rates

(***************************************************************************)
(* The aggregate of one list of items.                                     *)
(***************************************************************************)
\* sum(e - s for s, e in merged)
RECURSIVE IntervalsMs(_)
IntervalsMs(merged) ==
    IF merged = <<>> THEN 0
    ELSE (Head(merged)[2] - Head(merged)[1]) + IntervalsMs(Tail(merged))

Intervals(entries) == [i \in 1..Len(entries) |-> <<entries[i][1], entries[i][2]>>]

\* total_ms / 1000.0 / 60.0 if total_ms > 0 else 0.0
Minutes(total_ms) == IF total_ms > 0 THEN Rat(total_ms, 60000) ELSE Zero

\* total_units, minutes, rate of the surviving entries (the tail of
\* _analyze_items and of _episode_rate)
totals_raw_durations(entries) ==
    LET units == ISum(Rates(entries, 3))
        total_ms == IntervalsMs(Intervals(entries))
        minutes == Minutes(total_ms)
        rate == IF RLt(Zero, minutes) THEN RDiv(RInt(units), minutes) ELSE Zero
    IN  <<units, minutes, rate>>

totals(entries) ==
    LET units == ISum(Rates(entries, 3))
        merged == merge_intervals(Intervals(entries))
        total_ms == IntervalsMs(merged)
        minutes == Minutes(total_ms)
        rate == IF RLt(Zero, minutes) THEN RDiv(RInt(units), minutes) ELSE Zero
    IN  <<units, minutes, rate>>

\* the local variable entries of _analyze_items when it reaches "if not entries"
analyze_entries(items, unit, trim_outliers) ==
    LET l == line_loop(items, unit)
    IN  IF l.raised THEN Raised
        ELSE IF trim_outliers /\ l.ret # <<>>
        THEN [raised |-> FALSE, ret |-> inline_trim(l.ret)]
        ELSE l

\* collect_show_rates._analyze_items: (total_units, minutes, rate)
_analyze_items(items, unit, trim_outliers) ==
    LET es == analyze_entries(items, unit, trim_outliers)
    IN  IF es.raised THEN Raised
        ELSE IF es.ret = <<>> THEN [raised |-> FALSE, ret |-> <<0, Zero, Zero>>]
        ELSE [raised |-> FALSE, ret |-> totals(es.ret)]

\* the local variable entries of _episode_rate after the trimming block
episode_entries(items, unit, trim_outliers) ==
    LET l == _line_entries(items, unit)
    IN  IF l.raised THEN Raised
        ELSE IF l.ret = <<>> THEN l
        ELSE IF trim_outliers
        THEN [raised |-> FALSE, ret |-> inline_trim(l.ret)]
        ELSE l

\* visualize_rates._episode_rate: the rate alone
_episode_rate(items, unit, trim_outliers) ==
    LET es == episode_entries(items, unit, trim_outliers)
    IN  IF es.raised THEN Raised
        ELSE IF es.ret = <<>> THEN [raised |-> FALSE, ret |-> Zero]
        ELSE [raised |-> FALSE, ret |-> totals(es.ret)[3]]

(***************************************************************************)
(* Weighted median.                                                        *)
(***************************************************************************)
\* for v, w in pairs: acc += w; if acc >= target: return v
RECURSIVE MedianScan(_, _, _, _)
MedianScan(pairs, i, acc, target) ==
    IF i > Len(pairs) THEN pairs[Len(pairs)][1]
    ELSE LET acc2 == RAdd(acc, pairs[i][2])
         IN  IF RLe(target, acc2) THEN pairs[i][1]
             ELSE MedianScan(pairs, i + 1, acc2, target)

RECURSIVE MedianScanStrict(_, _, _, _)
MedianScanStrict(pairs, i, acc, target) ==
    IF i > Len(pairs) THEN pairs[Len(pairs)][1]
    ELSE LET acc2 == RAdd(acc, pairs[i][2])
         IN  IF RLt(target, acc2) THEN pairs[i][1]
             ELSE MedianScanStrict(pairs, i + 1, acc2, target)

weighted_median_strict(pairs0) ==
    IF pairs0 = <<>> THEN Zero
    ELSE LET pairs == sorted_by_value(pairs0)
             total_w == RSum(Rates(pairs, 2))
         IN  IF RLe(total_w, Zero) THEN Zero
             ELSE MedianScanStrict(pairs, 1, Zero, RDiv(total_w, RInt(2)))

\* collect_show_rates._weighted_median(pairs), pairs of (value, weight)
_weighted_median(pairs0) ==
    IF pairs0 = <<>> THEN Zero
    ELSE LET pairs == sorted_by_value(pairs0)
             total_w == RSum(Rates(pairs, 2))
         IN  IF RLe(total_w, Zero) THEN Zero
             ELSE MedianScan(pairs, 1, Zero, RDiv(total_w, RInt(2)))

\* zip(values, weights)
Zip(values, weights) ==
    [i \in 1..Min(Len(values), Len(weights)) |-> <<values[i], weights[i]>>]

\* visualize_rates._weighted_median(values, weights); weights None is <<>>
viz_weighted_median(values0, weights) ==
    IF values0 = <<>> THEN Zero
    ELSE IF weights = <<>>
    THEN LET values == sorted(values0)
             mid == Len(values) \div 2
         IN  IF Len(values) % 2 = 1 THEN values[mid + 1]
             ELSE RDiv(RAdd(values[mid], values[mid + 1]), RInt(2))
    ELSE LET pairs == sorted_by_value(Zip(values0, weights))
             total_w == RSum(Rates(pairs, 2))
         IN  IF RLe(total_w, Zero) THEN Zero
             ELSE MedianScan(pairs, 1, Zero, RDiv(total_w, RInt(2)))

(***************************************************************************)
(* Calls of the pure functions on inputs drawn from bounded sets.          *)
(***************************************************************************)
mainvars == <<pc, rows, total_units, total_minutes, line_rates, show_files,
              nshows, nfiles, nsubs, report>>

MainIdle ==
    /\ pc = "idle"
    /\ rows = <<>>
    /\ total_units = 0
    /\ total_minutes = Zero
    /\ line_rates = <<>>
    /\ show_files = <<>>
    /\ nshows = 0
    /\ nfiles = 0
    /\ nsubs = 0
    /\ report = <<>>

\* the call returns r
Returns(name, a, r) ==
    /\ fn' = name
    /\ arg' = a
    /\ res' = r
    /\ UNCHANGED mainvars

\* ---- _percentile
PctVals == {RInt(10), Rat(43, 4), RInt(11), RInt(12), RInt(100)}

Percents == {0, 10, 25, 50, 75, 90, 100}

SortedLists == {v \in SeqsUpTo(PctVals, MaxVals) : sorted(v) = v}

InitPct ==
    /\ fn = "none"
    /\ arg \in [sorted_vals : SortedLists, p : Percents]
    /\ res = <<>>
    /\ MainIdle

CallPercentile ==
    /\ fn = "none"
    /\ Returns("_percentile", arg, _percentile(arg.sorted_vals, arg.p))

CallVizPercentile ==
    /\ fn = "none"
    /\ Returns("viz_percentile", arg, viz_percentile(arg.sorted_vals, arg.p))

NextPct == CallPercentile \/ CallVizPercentile

SpecPct == InitPct /\ [][NextPct]_vars

\* ---- weighted median
MedianVals == {RInt(10), RInt(11), RInt(12)}

MedianWeights == {Zero, Rat(1, 2), RInt(1), RInt(2)}

InitMedian ==
    /\ fn = "none"
    /\ arg \in SeqsUpTo(MedianVals \X MedianWeights, MaxPairs)
    /\ res = <<>>
    /\ MainIdle

CallWeightedMedian ==
    /\ fn = "none"
    /\ Returns("_weighted_median", arg, _weighted_median(arg))

CallVizWeightedMedian ==
    /\ fn = "none"
    /\ Returns("viz_weighted_median", arg,
               viz_weighted_median(Rates(arg, 1), Rates(arg, 2)))

\* weights is None: the unweighted branch
CallVizMedianUnweighted ==
    /\ fn = "none"
    /\ Returns("viz_median_unweighted", arg,
               viz_weighted_median(Rates(arg, 1), <<>>))

NextMedian ==
    CallWeightedMedian \/ CallVizWeightedMedian \/ CallVizMedianUnweighted

SpecMedian == InitMedian /\ [][NextMedian]_vars

\* ---- the functions over the items of one file
Speech(n) == [kind |-> "speech", mora |-> n, kana |-> n, sokuon |-> 0, syllable |-> n]

\* five morae, no sokuon, four syllables
Konnichiwa ==
    [kind |-> "speech", mora |-> 5, kana |-> 5, sokuon |-> 0, syllable |-> 4]

\* three morae of which one is a sokuon, two syllables
Kitte == [kind |-> "speech", mora |-> 3, kana |-> 3, sokuon |-> 1, syllable |-> 2]

\* punctuation only: spoken text whose reading has no unit
Dots == [kind |-> "speech", mora |-> 0, kana |-> 0, sokuon |-> 0, syllable |-> 0]

Annotation == [Konnichiwa EXCEPT !.kind = "annot"]

Blank == [Dots EXCEPT !.kind = "blank"]

Item(s, e, t) == [start |-> s, end |-> e, text |-> t]

AggItems ==
    { Item(0, 1000, Konnichiwa), Item(500, 1500, Konnichiwa),
      Item(1500, 2500, Kitte), Item(2500, 2600, Konnichiwa),
      Item(1000, 1000, Konnichiwa) }

RejectItems ==
    { Item(0, 1000, Konnichiwa), Item(500, 1500, Kitte),
      Item(1000, 1000, Konnichiwa), Item(3000, 2000, Kitte),
      Item(0, 1000, Dots), Item(0, 1000, Annotation), Item(0, 1000, Blank) }

TrimItems ==
    { Item(0, 60000, Speech(10)), Item(60000, 120000, Speech(12)),
      Item(120000, 180000, Speech(11)), Item(180000, 240000, Speech(100)),
      Item(240000, 270000, Speech(5)) }

InitLines(pool, n, units) ==
    /\ fn = "none"
    /\ arg \in [items : SeqsUpTo(pool, n), unit : units]
    /\ res = <<>>
    /\ MainIdle

CallArg(trim) ==
    [items |-> arg.items, unit |-> arg.unit, trim_outliers |-> trim]

CallAnalyzeItems ==
    /\ fn = "none"
    /\ \E trim \in BOOLEAN :
        Returns("_analyze_items", CallArg(trim),
                [entries |-> analyze_entries(arg.items, arg.unit, trim),
                 out |-> _analyze_items(arg.items, arg.unit, trim)])

CallEpisodeRate ==
    /\ fn = "none"
    /\ \E trim \in BOOLEAN :
        Returns("_episode_rate", CallArg(trim),
                [entries |-> episode_entries(arg.items, arg.unit, trim),
                 out |-> _episode_rate(arg.items, arg.unit, trim)])

CallLineRates ==
    /\ fn = "none"
    /\ Returns("_line_rates", CallArg(FALSE),
               [out |-> _line_rates(arg.items, arg.unit)])

CallVizLineRates ==
    /\ fn = "none"
    /\ Returns("viz_line_rates", CallArg(FALSE),
               [out |-> viz_line_rates(arg.items, arg.unit)])

\* the show-level fence of collect_show_rates.main over one file's lines
CallShowTrim ==
    /\ fn = "none"
    /\ ~_line_rates(arg.items, arg.unit).raised
    /\ \E trim \in BOOLEAN :
        Returns("show_trim", CallArg(trim),
                [out |-> show_trim(_line_rates(arg.items, arg.unit).ret, trim)])

\* the show-level filter of visualize_rates.main over one file's lines
CallVizShowLines ==
    /\ fn = "none"
    /\ ~viz_line_rates(arg.items, arg.unit).raised
    /\ \E trim \in BOOLEAN :
        Returns("viz_show_lines", CallArg(trim),
                [out |-> viz_show_lines(viz_line_rates(arg.items, arg.unit).ret,
                                        trim)])

NextLines ==
    \/ CallAnalyzeItems
    \/ CallEpisodeRate
    \/ CallLineRates
    \/ CallVizLineRates
    \/ CallShowTrim
    \/ CallVizShowLines

InitAgg == InitLines(AggItems, MaxItems, {"mora", "kana"})

SpecAgg == InitAgg /\ [][NextLines]_vars

InitTrim == InitLines(TrimItems, MaxItems, {"mora"})

SpecTrim == InitTrim /\ [][NextLines]_vars

InitReject == InitLines(RejectItems, MaxRejects, Units)

SpecReject == InitReject /\ [][NextLines]_vars

(***************************************************************************)
(* collect_show_rates.main.  The directory tree is read as the loops go:   *)
(* each show directory and each of its entries is drawn when the loop      *)
(* reaches it.  A show directory holds at least one subtitle file          *)
(* (_collect_show_dirs keeps the parents of subtitle files only).          *)
(***************************************************************************)
\* parse_srt / parse_ass: the items of the file, or an exception on a file
\* that cannot be read or decoded
parse_file(path) ==
    IF path.corrupt THEN Raised ELSE [raised |-> FALSE, ret |-> path.items]

_parse_items(path) ==
    IF path.suffix = ".srt" THEN parse_file(path)
    ELSE IF path.suffix = ".ass" THEN parse_file(path)
    ELSE [raised |-> FALSE, ret |-> <<>>]

\* a directory entry: its suffix, whether it can be read and decoded, its items
File(suffix, corrupt, items) ==
    [suffix |-> suffix, corrupt |-> corrupt, items |-> items]

\* one episode whose first two lines overlap
Episode == <<Item(0, 1000, Konnichiwa), Item(500, 1500, Konnichiwa)>>

\* a file none of whose lines survives
Silent == <<Item(1000, 1000, Konnichiwa), Item(0, 1000, Annotation)>>

\* an episode with one line far faster than the others
Outlier ==
    << Item(0, 60000, Speech(10)), Item(60000, 120000, Speech(12)),
       Item(120000, 180000, Speech(11)), Item(180000, 240000, Speech(100)) >>

DirEntries ==
    { File(".srt", FALSE, Episode), File(".srt", FALSE, Silent),
      File(".ass", FALSE, Outlier), File(".srt", TRUE, <<>>),
      File(".txt", FALSE, <<>>) }

IsSubtitle(path) == path.suffix \in {".srt", ".ass"}

Init ==
    /\ fn = "none"
    /\ arg \in [unit : Units, trim_outliers : BOOLEAN]
    /\ res = <<>>
    /\ pc = "start"
    /\ rows = <<>>
    /\ total_units = 0
    /\ total_minutes = Zero
    /\ line_rates = <<>>
    /\ show_files = <<>>
    /\ nshows = 0
    /\ nfiles = 0
    /\ nsubs = 0
    /\ report = <<>>

\* if not show_dirs: print("No subtitle folders found."); return
NoShowDirs ==
    /\ pc = "start"
    /\ pc' = "done"
    /\ fn' = "return"
    /\ report' = <<"No subtitle folders found.">>
    /\ UNCHANGED <<arg, res, rows, total_units, total_minutes, line_rates,
                   show_files, nshows, nfiles, nsubs>>

\* for d in show_dirs: total_units = 0; total_minutes = 0.0; line_rates = []
BeginShow ==
    /\ pc \in {"start", "between"}
    /\ nshows < MaxShows
    /\ pc' = "files"
    /\ fn' = "dir"
    /\ nshows' = nshows + 1
    /\ total_units' = 0
    /\ total_minutes' = Zero
    /\ line_rates' = <<>>
    /\ show_files' = <<>>
    /\ nfiles' = 0
    /\ nsubs' = 0
    /\ UNCHANGED <<arg, res, rows, report>>

\* if fname.suffix.lower() not in (".srt", ".ass"): continue
SkipEntry ==
    /\ pc = "files"
    /\ nfiles < MaxFiles
    /\ \E fname \in DirEntries :
        /\ ~IsSubtitle(fname)
        /\ nfiles' = nfiles + 1
        /\ fn' = "continue"
    /\ UNCHANGED <<arg, res, pc, rows, total_units, total_minutes, line_rates,
                   show_files, nshows, nsubs, report>>

\* items = _parse_items(fname) raises: nothing in main catches it
ParseFails ==
    /\ pc = "files"
    /\ nfiles < MaxFiles
    /\ \E fname \in DirEntries :
        /\ IsSubtitle(fname)
        /\ _parse_items(fname).raised
        /\ pc' = "raised"
        /\ fn' = "parse"
        /\ nfiles' = nfiles + 1
        /\ nsubs' = nsubs + 1
    /\ UNCHANGED <<arg, res, rows, total_units, total_minutes, line_rates,
                   show_files, nshows, report>>

ProcessFileNoAccumulate ==
    /\ pc = "files"
    /\ nfiles < MaxFiles
    /\ \E fname \in DirEntries :
        /\ IsSubtitle(fname)
        /\ ~_parse_items(fname).raised
        /\ LET items == _parse_items(fname).ret
               r == _analyze_items(items, arg.unit, arg.trim_outliers)
               lr == _line_rates(items, arg.unit)
           IN  /\ res' = r
               /\ show_files' = Append(show_files, items)
               /\ IF r.raised \/ lr.raised
                  THEN /\ pc' = "raised"
                       /\ UNCHANGED <<total_units, total_minutes, line_rates>>
                  ELSE /\ pc' = pc
                       /\ total_units' = r.ret[1]
                       /\ total_minutes' = r.ret[2]
                       /\ line_rates' = line_rates \o lr.ret
        /\ fn' = "file"
        /\ nfiles' = nfiles + 1
        /\ nsubs' = nsubs + 1
    /\ UNCHANGED <<arg, rows, nshows, report>>

\* one iteration of "for fname in sorted(d.iterdir())" on a file that parses
ProcessFile ==
    /\ pc = "files"
    /\ nfiles < MaxFiles
    /\ \E fname \in DirEntries :
        /\ IsSubtitle(fname)
        /\ ~_parse_items(fname).raised
        /\ LET items == _parse_items(fname).ret
               r == _analyze_items(items, arg.unit, arg.trim_outliers)
               lr == _line_rates(items, arg.unit)
           IN  /\ res' = r
               /\ show_files' = Append(show_files, items)
               /\ IF r.raised \/ lr.raised
                  THEN /\ pc' = "raised"
                       /\ UNCHANGED <<total_units, total_minutes, line_rates>>
                  ELSE /\ pc' = pc
                       /\ total_units' = total_units + r.ret[1]
                       /\ total_minutes' = RAdd(total_minutes, r.ret[2])
                       /\ line_rates' = line_rates \o lr.ret
        /\ fn' = "file"
        /\ nfiles' = nfiles + 1
        /\ nsubs' = nsubs + 1
    /\ UNCHANGED <<arg, rows, nshows, report>>

\* the row of the show: (d.name, total_units, total_minutes, rate, line_median_tw)
ShowRow ==
    <<nshows, total_units, total_minutes, RDiv(RInt(total_units), total_minutes),
      _weighted_median(show_trim(line_rates, arg.trim_outliers))>>

EndShowAlwaysRow ==
    /\ pc = "files"
    /\ nsubs >= 1
    /\ pc' = "between"
    /\ fn' = "show"
    /\ rows' = Append(rows, IF RLt(Zero, total_minutes) THEN ShowRow
                            ELSE <<nshows, total_units, total_minutes, Zero, Zero>>)
    /\ UNCHANGED <<arg, res, total_units, total_minutes, line_rates, show_files,
                   nshows, nfiles, nsubs, report>>

\* the directory has no further entry: "if total_minutes > 0: ... rows.append"
EndShow ==
    /\ pc = "files"
    /\ nsubs >= 1
    /\ pc' = "between"
    /\ fn' = "show"
    /\ rows' = IF RLt(Zero, total_minutes) THEN Append(rows, ShowRow) ELSE rows
    /\ UNCHANGED <<arg, res, total_units, total_minutes, line_rates, show_files,
                   nshows, nfiles, nsubs, report>>

RECURSIVE InsertRow(_, _)
InsertRow(x, s) ==
    IF s = <<>> THEN <<x>>
    ELSE IF RLt(x[4], Head(s)[4]) THEN <<x>> \o s
    ELSE <<Head(s)>> \o InsertRow(x, Tail(s))

\* sorted(rows, key=lambda r: r[3])
RECURSIVE sorted_rows(_)
sorted_rows(s) ==
    IF s = <<>> THEN <<>>
    ELSE InsertRow(s[Len(s)], sorted_rows(SubSeq(s, 1, Len(s) - 1)))

\* after the last show: the message, or the table sorted by rate
Finish ==
    /\ pc = "between"
    /\ pc' = "done"
    /\ fn' = "return"
    /\ report' = IF rows = <<>> THEN <<"No valid subtitle entries found.">>
                 ELSE sorted_rows(rows)
    /\ UNCHANGED <<arg, res, rows, total_units, total_minutes, line_rates,
                   show_files, nshows, nfiles, nsubs>>

Next ==
    \/ NoShowDirs
    \/ BeginShow
    \/ SkipEntry
    \/ ParseFails
    \/ ProcessFile
    \/ EndShow
    \/ Finish

Spec == Init /\ [][Next]_vars

(***************************************************************************)
(* Properties.                                                             *)
(***************************************************************************)
PercentileCalled == fn \in {"_percentile", "viz_percentile"}

\* k = (n - 1) * p / 100 and the two indices around it (0-based, as in the code)
RankK(n, p) == Rat((n - 1) * p, 100)

RankF(n, p) == ((n - 1) * p) \div 100

RankC(n, p) == Min(RankF(n, p) + 1, n - 1)

\* v[f] * (c - k) + v[c] * (k - f), v indexed from 0
Interpolation(v, p) ==
    LET n == Len(v)
        k == RankK(n, p)
        f == RankF(n, p)
        c == RankC(n, p)
    IN  RAdd(RMul(v[f + 1], RSub(RInt(c), k)), RMul(v[c + 1], RSub(k, RInt(f))))

PercentileEnds ==
    LET v == arg.sorted_vals
        n == Len(v)
    IN  /\ n = 0 => res = Zero
        /\ n > 0 /\ arg.p = 0 =>
               res = v[1] /\ \A i \in 1..n : RLe(res, v[i])
        /\ n > 0 /\ arg.p = 100 =>
               res = v[n] /\ \A i \in 1..n : RLe(v[i], res)
        /\ n > 0 /\ arg.p > 0 /\ arg.p < 100 =>
               /\ RLe(v[RankF(n, arg.p) + 1], res)
               /\ RLe(res, v[RankC(n, arg.p) + 1])

\* C8 as stated: for every non-empty sorted list, _percentile at 0 is the minimum,
\* at 100 the maximum, and for 0 < p < 100 it is v[f]*(c-k) + v[c]*(k-f), which
\* lies between v[f] and v[c]; the empty list gives 0.
C8_AsStated ==
    PercentileCalled =>
        /\ PercentileEnds
        /\ Len(arg.sorted_vals) > 0 /\ arg.p > 0 /\ arg.p < 100 =>
               res = Interpolation(arg.sorted_vals, arg.p)

\* C8 amended: as stated, except that when f = c (a one-element list) the result
\* is the element v[f] itself and not the interpolation formula, which would be 0.
C8_Percentile ==
    PercentileCalled =>
        /\ PercentileEnds
        /\ Len(arg.sorted_vals) > 0 /\ arg.p > 0 /\ arg.p < 100 =>
               LET n == Len(arg.sorted_vals)
               IN  IF RankF(n, arg.p) = RankC(n, arg.p)
                   THEN res = arg.sorted_vals[RankF(n, arg.p) + 1]
                   ELSE res = Interpolation(arg.sorted_vals, arg.p)

\* the first quartile of [10, 11, 12, 100] is 10.75
C8_Witness ==
    /\ fn = "_percentile"
    /\ arg.sorted_vals = <<RInt(10), RInt(11), RInt(12), RInt(100)>>
    /\ arg.p = 25
    /\ res = Rat(43, 4)

\* the total weight of the pairs whose value is at most v
WeightUpTo(pairs, v) ==
    RSum(Rates(SelectSeq(pairs, LAMBDA q : RLe(q[1], v)), 2))

UniformWeights(pairs) == \A i \in 1..Len(pairs) : pairs[i][2] = pairs[1][2]

\* C5: with weights supplied, the weighted median is the least input value at which
\* the cumulative weight of the value-sorted pairs reaches half the total weight; it
\* is one of the input values; for an odd-length list with uniform weights it is
\* the classic median; with empty input or total weight <= 0 it is 0.
C5_WeightedMedian ==
    fn \in {"_weighted_median", "viz_weighted_median"} =>
        LET total_w == RSum(Rates(arg, 2))
            half == RDiv(total_w, RInt(2))
        IN  IF arg = <<>> \/ RLe(total_w, Zero)
            THEN res = Zero
            ELSE /\ res \in ToSet(Rates(arg, 1))
                 /\ RLe(half, WeightUpTo(arg, res))
                 /\ \A i \in 1..Len(arg) :
                        RLt(arg[i][1], res) => RLt(WeightUpTo(arg, arg[i][1]), half)
                 /\ Len(arg) % 2 = 1 /\ UniformWeights(arg) =>
                        res = sorted(Rates(arg, 1))[(Len(arg) \div 2) + 1]

\* the trimmed rates [10, 12, 11] with weights [1, 1, 1] have weighted median 11
C5_Witness ==
    /\ fn = "_weighted_median"
    /\ arg = << <<RInt(10), RInt(1)>>, <<RInt(12), RInt(1)>>, <<RInt(11), RInt(1)>> >>
    /\ res = RInt(11)

\* the sum of a finite set of integers given by a function on it
RECURSIVE SumOver(_, _)
SumOver(S, f) ==
    IF S = {} THEN 0
    ELSE LET x == CHOOSE y \in S : TRUE
         IN  f[x] + SumOver(S \ {x}, f)

\* the length in ms of the union of the entries' intervals: every stretch between
\* two neighbouring end points counts once if some entry covers it
UnionMs(entries) ==
    LET pts == {entries[i][1] : i \in 1..Len(entries)}
                   \cup {entries[i][2] : i \in 1..Len(entries)}
        segs == {sg \in pts \X pts :
                    /\ sg[1] < sg[2]
                    /\ ~\E q \in pts : sg[1] < q /\ q < sg[2]
                    /\ \E i \in 1..Len(entries) :
                           entries[i][1] <= sg[1] /\ sg[2] <= entries[i][2]}
    IN  SumOver(segs, [sg \in segs |-> sg[2] - sg[1]])

\* the sum of the entries' own durations
RawMs(entries) == ISum([i \in 1..Len(entries) |-> entries[i][2] - entries[i][1]])

Overlapping(entries) ==
    \E i, j \in 1..Len(entries) :
        i # j /\ entries[i][1] < entries[j][2] /\ entries[j][1] < entries[i][2]

\* C1: the aggregate of _analyze_items and _episode_rate divides the summed units
\* by the length of the union of the surviving lines' intervals, each instant
\* counted once: total_minutes * 60000 = union length <= sum of line durations.
C1_MergedDuration ==
    /\ fn = "_analyze_items" /\ ~res.out.raised /\ res.entries.ret # <<>> =>
           LET es == res.entries.ret
           IN  /\ res.out.ret[1] = ISum(Rates(es, 3))
               /\ res.out.ret[2] = Rat(UnionMs(es), 60000)
               /\ UnionMs(es) <= RawMs(es)
               /\ Overlapping(es) => UnionMs(es) < RawMs(es)
               /\ res.out.ret[3] = Rat(res.out.ret[1] * 60000, UnionMs(es))
    /\ fn = "_episode_rate" /\ ~res.out.raised /\ res.entries.ret # <<>> =>
           LET es == res.entries.ret
           IN  res.out.ret = Rat(ISum(Rates(es, 3)) * 60000, UnionMs(es))

\* (0, 1000) and (500, 1500) with 5 units each: 10 units in 1500 ms, 400 per minute
C1_Witness ==
    /\ fn = "_analyze_items"
    /\ arg.items = <<Item(0, 1000, Konnichiwa), Item(500, 1500, Konnichiwa)>>
    /\ arg.unit = "mora"
    /\ res.out.ret = <<10, Rat(1500, 60000), RInt(400)>>

\* the number of units of a text under a unit selector
UnitsOf(text, unit) ==
    IF unit = "mora" THEN text.mora
    ELSE IF unit = "syllable" THEN text.syllable
    ELSE text.kana - text.sokuon

\* the record has spoken text, a positive duration and a positive unit count
Survives(item, unit) ==
    /\ item.text.kind = "speech"
    /\ item.end > item.start
    /\ UnitsOf(item.text, unit) > 0

Survivors(items, unit) == SelectSeq(items, LAMBDA it : Survives(it, unit))

\* C7: records with end <= start, with no spoken text or with a unit count <= 0
\* contribute nothing: every result equals the result on the surviving records
\* alone, one line observation is emitted per surviving record, each with
\* rate > 0 and weight > 0, and no call raises a division by zero.
C7_RejectedLines ==
    LET kept == Survivors(arg.items, arg.unit)
    IN  /\ fn = "_analyze_items" =>
               /\ ~res.out.raised
               /\ res.out = _analyze_items(kept, arg.unit, arg.trim_outliers)
        /\ fn = "_episode_rate" =>
               /\ ~res.out.raised
               /\ res.out = _episode_rate(kept, arg.unit, arg.trim_outliers)
        /\ fn \in {"_line_rates", "viz_line_rates"} =>
               /\ ~res.out.raised
               /\ Len(res.out.ret) = Len(kept)
               /\ \A i \in 1..Len(kept) :
                      /\ res.out.ret[i][1] =
                             Rat(UnitsOf(kept[i].text, arg.unit) * 60000,
                                 kept[i].end - kept[i].start)
                      /\ res.out.ret[i][2] = Rat(kept[i].end - kept[i].start, 1000)
                      /\ RLt(Zero, res.out.ret[i][1])
                      /\ RLt(Zero, res.out.ret[i][2])

\* a zero-duration record between two surviving ones leaves two observations
C7_Witness ==
    /\ fn = "_line_rates"
    /\ arg.items = <<Item(0, 1000, Konnichiwa), Item(1000, 1000, Konnichiwa),
                     Item(500, 1500, Kitte)>>
    /\ arg.unit = "kana"
    /\ res.out.ret = << <<RInt(300), RInt(1)>>, <<RInt(120), RInt(1)>> >>

\* C10: trimming never empties a non-empty population: when a line survives
\* extraction, a line survives trimming, and the aggregate has total_units > 0,
\* total_minutes > 0 and rate > 0, with trimming or without.
C10_TrimKeepsSome ==
    /\ fn = "_analyze_items" /\ Survivors(arg.items, arg.unit) # <<>> =>
           /\ ~res.out.raised
           /\ res.entries.ret # <<>>
           /\ res.out.ret[1] > 0
           /\ RLt(Zero, res.out.ret[2])
           /\ RLt(Zero, res.out.ret[3])
    /\ fn = "_episode_rate" /\ Survivors(arg.items, arg.unit) # <<>> =>
           /\ ~res.out.raised
           /\ res.entries.ret # <<>>
           /\ RLt(Zero, res.out.ret)

\* trimming removed a line and the episode still has a positive rate
C10_Witness ==
    /\ fn = "_episode_rate"
    /\ arg.trim_outliers
    /\ Len(res.entries.ret) = 3
    /\ Len(Survivors(arg.items, arg.unit)) = 4
    /\ RLt(Zero, res.out.ret)

\* Q1 - 1.5*IQR <= r <= Q3 + 1.5*IQR, stated as 2*Q1 - 3*IQR <= 2*r <= 2*Q3 + 3*IQR
WithinFence(r, q1, q3) ==
    LET iqr == RSub(q3, q1)
    IN  /\ RLe(RSub(RMul(RInt(2), q1), RMul(RInt(3), iqr)), RMul(RInt(2), r))
        /\ RLe(RMul(RInt(2), r), RAdd(RMul(RInt(2), q3), RMul(RInt(3), iqr)))

\* the subsequence of seq whose rate (column col) is within the fence of the
\* quartiles of all its rates; seq itself when IQR <= 0
FenceSubsequence(seq, col) ==
    LET rates == sorted(Rates(seq, col))
        q1 == _percentile(rates, 25)
        q3 == _percentile(rates, 75)
    IN  IF RLe(RSub(q3, q1), Zero) THEN seq
        ELSE SelectSeq(seq, LAMBDA e : WithinFence(e[col], q1, q3))

\* C3: every trimmer returns exactly the subsequence of its input whose rates lie
\* within [Q1 - 1.5*IQR, Q3 + 1.5*IQR], in the original order, duplicates and the
\* data paired with each rate kept; the input unchanged when IQR <= 0.
C3_TrimIsFenceSubsequence ==
    /\ fn = "_analyze_items" /\ arg.trim_outliers =>
           res.entries.ret = FenceSubsequence(line_loop(arg.items, arg.unit).ret, 4)
    /\ fn = "_episode_rate" /\ arg.trim_outliers =>
           res.entries.ret = FenceSubsequence(line_loop(arg.items, arg.unit).ret, 4)
    /\ fn = "show_trim" /\ arg.trim_outliers =>
           res.out = FenceSubsequence(_line_rates(arg.items, arg.unit).ret, 1)
    /\ fn = "viz_show_lines" /\ arg.trim_outliers =>
           res.out = FenceSubsequence(viz_line_rates(arg.items, arg.unit).ret, 1)

\* rates [10, 12, 11, 100] are trimmed to [10, 12, 11], weights kept
C3_Witness ==
    /\ fn = "viz_show_lines"
    /\ arg.trim_outliers
    /\ arg.items = Outlier
    /\ res.out = << <<RInt(10), RInt(60)>>, <<RInt(12), RInt(60)>>,
                    <<RInt(11), RInt(60)>> >>

\* the (rate, weight) pairs of entries
RateWeights(entries) == [i \in 1..Len(entries) |-> <<entries[i][4], entries[i][5]>>]

\* C9: the three trimmers keep the same lines in the same order on every list:
\* the inline fence of _analyze_items / _episode_rate, the show-level fence of
\* collect_show_rates.main and _trim_iqr with the membership filter of
\* visualize_rates.main.
C9_TrimmersAgree ==
    /\ fn \in {"_analyze_items", "_episode_rate"} /\ arg.trim_outliers =>
           /\ RateWeights(res.entries.ret) =
                  show_trim(_line_rates(arg.items, arg.unit).ret, TRUE)
           /\ RateWeights(res.entries.ret) =
                  viz_show_lines(viz_line_rates(arg.items, arg.unit).ret, TRUE)
    /\ fn = "show_trim" /\ arg.trim_outliers =>
           /\ res.out = RateWeights(analyze_entries(arg.items, arg.unit, TRUE).ret)
           /\ res.out = viz_show_lines(viz_line_rates(arg.items, arg.unit).ret, TRUE)
    /\ fn = "viz_show_lines" /\ arg.trim_outliers =>
           /\ res.out = RateWeights(episode_entries(arg.items, arg.unit, TRUE).ret)
           /\ res.out = show_trim(_line_rates(arg.items, arg.unit).ret, TRUE)

\* four lines of which three share one rate: the show-level fence drops the
\* fourth, as the inline fence does
C9_Witness ==
    /\ fn = "show_trim"
    /\ arg.trim_outliers
    /\ Len(arg.items) = 4
    /\ Len(res.out) = 3
    /\ res.out[1][1] = res.out[2][1]
    /\ res.out = RateWeights(analyze_entries(arg.items, arg.unit, TRUE).ret)

\* all the records of the show's files, in file order
RECURSIVE Concat(_)
Concat(files) == IF files = <<>> THEN <<>> ELSE Head(files) \o Concat(Tail(files))

\* the show that just ended has a row
RowAdded == fn = "show" /\ rows # <<>> /\ rows[Len(rows)][1] = nshows

\* the per-file aggregates of the show's files
FileAggregates ==
    [i \in 1..Len(show_files) |->
        _analyze_items(show_files[i], arg.unit, arg.trim_outliers).ret]

\* C2 as stated: the row of a show reports the total_units, total_minutes and rate
\* of one run of the aggregate (trimming, then merging) over the concatenation of
\* the records of all its files.
C2_AsStated ==
    RowAdded =>
        LET row == rows[Len(rows)]
            one == _analyze_items(Concat(show_files), arg.unit, arg.trim_outliers).ret
        IN  <<row[2], row[3], row[4]>> = one

\* C2 amended: the row of a show reports the sums of the per-file aggregates, each
\* file trimmed and merged on its own: total_units and total_minutes are the sums
\* of the files' total_units and minutes, and rate is their quotient.
C2_SumOfFileAggregates ==
    RowAdded =>
        LET row == rows[Len(rows)]
            units == ISum(Rates(FileAggregates, 1))
            minutes == RSum(Rates(FileAggregates, 2))
        IN  /\ row[2] = units
            /\ row[3] = minutes
            /\ row[4] = Rat(units * minutes[2], minutes[1])

\* two episodes that both run from 0 ms: 20 units in 3000 ms, not in 1500 ms
C2_Witness ==
    /\ RowAdded
    /\ show_files = <<Episode, Episode>>
    /\ arg.unit = "mora"
    /\ rows[Len(rows)][2] = 20
    /\ rows[Len(rows)][3] = Rat(3000, 60000)
    /\ rows[Len(rows)][4] = RInt(400)

\* C4: a file whose parse fails does not abort the batch: the run never ends in an
\* uncaught exception, the other files and shows are processed and the report is
\* produced.
C4_ParseFailureDoesNotAbort == pc # "raised"

\* some file of the show has a line that survives extraction
ShowHasLine ==
    \E i \in 1..Len(show_files) : Survivors(show_files[i], arg.unit) # <<>>

\* C6: a show gets a row if and only if its total_minutes is > 0, which is when
\* one of its files has a surviving line; every row has rate =
\* total_units / total_minutes > 0; a file with no surviving line yields
\* (0, 0.0, 0.0) and does not raise.
C6_RowIffMinutes ==
    /\ fn = "show" =>
           /\ RowAdded <=> RLt(Zero, total_minutes)
           /\ RowAdded <=> ShowHasLine
    /\ \A i \in 1..Len(rows) :
           /\ RLt(Zero, rows[i][3])
           /\ RLt(Zero, rows[i][4])
           /\ rows[i][4] = Rat(rows[i][2] * rows[i][3][2], rows[i][3][1])
           /\ \A j \in 1..Len(rows) : i # j => rows[i][1] # rows[j][1]
    /\ fn = "file" /\ Survivors(show_files[Len(show_files)], arg.unit) = <<>> =>
           res = [raised |-> FALSE, ret |-> <<0, Zero, Zero>>]
    /\ pc = "done" /\ rows # <<>> => Len(report) = Len(rows)

\* a show whose only file has no surviving line ends without a row, after a show
\* that has one
C6_Witness ==
    /\ fn = "show"
    /\ show_files = <<Silent>>
    /\ res = [raised |-> FALSE, ret |-> <<0, Zero, Zero>>]
    /\ Len(rows) = 1
    /\ rows[1][1] = 1
    /\ nshows = 2

====
